---- MODULE Spec2Model ----
(***************************************************************************)
(* scripts/clj-declare-analy.py: the scanner of Clojure files that reports *)
(* a function called on a line before the line that defines it, without a  *)
(* declare.                                                                *)
(*                                                                         *)
(* Text is modelled as the program holds it: a string is the sequence of   *)
(* its code points (a natural number per character), so the regular        *)
(* expressions, strip, split, the f-strings and the sort orders are        *)
(* computed on the characters themselves.  Every literal below carries the *)
(* text it spells in the comment next to it.                               *)
(***************************************************************************)
EXTENDS Integers, Sequences, FiniteSets, TLC

(***************************************************************************)
(* Bounds of the model.                                                    *)
(***************************************************************************)
\* most lines of the file whose text is drawn line by line
MaxLines == 3
\* most files under the root directory
MaxFiles == 3

(***************************************************************************)
(* Characters and character classes of the patterns.                       *)
(***************************************************************************)
\* '\n', the separator of content.split
Newline == 10
\* '(' opening every pattern
LParen == 40
\* ')' excluded from the captured groups
RParen == 41
\* ';' starting a comment line
Semicolon == 59
\* '.' the namespace separator
Dot == 46
\* '$' marking a Java inner class
Dollar == 36
\* '^' the optional head of the metadata pattern
Caret == 94
\* ':' of the metadata pattern's class
Colon == 58
\* '[' and ']' of the :require pattern
LBracket == 91
RBracket == 93
\* '/' separating the parts of a path
Slash == 47

\* \s of the patterns and the characters str.strip removes
IsSpace(c) ==
  \/ c \in 9..13
  \/ c \in 28..32
  \/ c \in {133, 160, 5760, 8232, 8233, 8239, 8287, 12288}
  \/ c \in 8192..8202

\* [^\s\)] of the definition, declare and namespace patterns
IsSymbolChar(c) == ~IsSpace(c) /\ c # RParen

\* [^\)] of the declare pattern
NotRParen(c) == c # RParen

\* [^\]] of the :require pattern
NotRBracket(c) == c # RBracket

\* \S of the :as pattern
NotSpace(c) == ~IsSpace(c)

\* [a-zA-Z_\-\.\?\!], the first characters of a call's head symbol
IsHeadChar(c) ==
  \/ c \in 97..122
  \/ c \in 65..90
  \/ c \in {95, 45, 46, 63, 33}

\* [a-zA-Z0-9_\-\.\?\!], the following characters of a call's head symbol
IsBodyChar(c) == IsHeadChar(c) \/ c \in 48..57

\* [:\w] of the metadata pattern (\w on the ASCII range)
IsMetaChar(c) ==
  \/ c = Colon
  \/ c \in 97..122
  \/ c \in 65..90
  \/ c \in 48..57
  \/ c = 95

\* the character classes the patterns repeat, by name
InClass(cls, c) ==
  CASE cls = "space" -> IsSpace(c)
    [] cls = "symbol" -> IsSymbolChar(c)
    [] cls = "not)" -> NotRParen(c)
    [] cls = "not]" -> NotRBracket(c)
    [] cls = "notspace" -> NotSpace(c)
    [] cls = "body" -> IsBodyChar(c)
    [] cls = "meta" -> IsMetaChar(c)

\* str.isupper of one character (the call pattern admits ASCII letters only)
IsUpper(c) == c \in 65..90

(***************************************************************************)
(* String primitives.                                                      *)
(***************************************************************************)
\* s.startswith(w, p - 1): w occurs in s at the 1-based position p
StartsWithAt(s, p, w) ==
  /\ p >= 1
  /\ p + Len(w) - 1 <= Len(s)
  /\ \A k \in 1..Len(w) : s[p + k - 1] = w[k]

\* w in s
Contains(s, w) == \E p \in 1..Len(s) : StartsWithAt(s, p, w)

\* min(S) of a non-empty set of numbers
Min(S) == CHOOSE x \in S : \A y \in S : x <= y

\* max(S) of a non-empty set of numbers
Max(S) == CHOOSE x \in S : \A y \in S : x >= y

\* the position after the longest run, from p, of characters of the class cls:
\* where a greedy repetition of the class stops
RunEnd(s, p, cls) ==
  LET stops == {q \in p..Len(s) : ~InClass(cls, s[q])}
  IN  IF stops = {} THEN (IF p > Len(s) THEN p ELSE Len(s) + 1) ELSE Min(stops)

\* str.strip()
Strip(s) ==
  LET keep == {i \in 1..Len(s) : ~IsSpace(s[i])}
  IN  IF keep = {} THEN <<>> ELSE SubSeq(s, Min(keep), Max(keep))

\* str.split(sep) for a one-character separator
RECURSIVE Split(_, _)
Split(s, sep) ==
  LET at == {i \in 1..Len(s) : s[i] = sep}
  IN  IF at = {} THEN <<s>>
      ELSE <<SubSeq(s, 1, Min(at) - 1)>> \o Split(SubSeq(s, Min(at) + 1, Len(s)), sep)

(***************************************************************************)
(* The patterns of parse_file.                                             *)
(***************************************************************************)
\* r'\(ns\s+([^\s\)]+)': "(ns", white space, then the captured name
NsOpen == <<40, 110, 115>>
NsMatchAt(s, p) ==
  /\ StartsWithAt(s, p, NsOpen)
  /\ p + 3 <= Len(s)
  /\ IsSpace(s[p + 3])
  /\ LET r == RunEnd(s, p + 3, "space") IN r <= Len(s) /\ s[r] # RParen
NsGroup(s, p) ==
  LET r == RunEnd(s, p + 3, "space") IN SubSeq(s, r, RunEnd(s, r, "symbol") - 1)

\* r':require\s+\[([^\]]+)\]': ":require", white space, a bracketed group
RequireOpen == <<58, 114, 101, 113, 117, 105, 114, 101>>
RequireMatchAt(s, p) ==
  /\ StartsWithAt(s, p, RequireOpen)
  /\ p + 8 <= Len(s)
  /\ IsSpace(s[p + 8])
  /\ LET r == RunEnd(s, p + 8, "space")
     IN  /\ r <= Len(s)
         /\ s[r] = LBracket
         /\ LET e == RunEnd(s, r + 1, "not]") IN e <= Len(s) /\ e > r + 1
\* the captured group and the position after the match
RequireGroup(s, p) ==
  LET r == RunEnd(s, p + 8, "space") IN SubSeq(s, r + 1, RunEnd(s, r + 1, "not]") - 1)
RequireEnd(s, p) ==
  LET r == RunEnd(s, p + 8, "space") IN RunEnd(s, r + 1, "not]") + 1

\* r':as\s+(\S+)': ":as", white space, the captured alias
AsOpen == <<58, 97, 115>>
AsMatchAt(s, p) ==
  /\ StartsWithAt(s, p, AsOpen)
  /\ p + 3 <= Len(s)
  /\ IsSpace(s[p + 3])
  /\ RunEnd(s, p + 3, "space") <= Len(s)
AsGroup(s, p) ==
  LET r == RunEnd(s, p + 3, "space") IN SubSeq(s, r, RunEnd(s, r, "notspace") - 1)
AsEnd(s, p) == RunEnd(s, RunEnd(s, p + 3, "space"), "notspace")

\* r'\(def(?:n)?\s+([^\s\)]+)': "(def" or "(defn", white space, the captured name
DefOpen == <<40, 100, 101, 102>>
DefSpaceAt(s, p) == IF p + 4 <= Len(s) /\ s[p + 4] = 110 THEN p + 5 ELSE p + 4
DefMatchAt(s, p) ==
  /\ StartsWithAt(s, p, DefOpen)
  /\ DefSpaceAt(s, p) <= Len(s)
  /\ IsSpace(s[DefSpaceAt(s, p)])
  /\ LET r == RunEnd(s, DefSpaceAt(s, p), "space") IN r <= Len(s) /\ s[r] # RParen
DefGroup(s, p) ==
  LET r == RunEnd(s, DefSpaceAt(s, p), "space") IN SubSeq(s, r, RunEnd(s, r, "symbol") - 1)

\* re.sub(r'^\^?[:\w]+\s+', '', symbol).strip(): a leading metadata mark
\* followed by white space is removed
StripMetadata(symbol) ==
  LET a == IF Len(symbol) >= 1 /\ symbol[1] = Caret THEN 2 ELSE 1
      b == RunEnd(symbol, a, "meta")
      c == RunEnd(symbol, b, "space")
  IN  Strip(IF b > a /\ c > b THEN SubSeq(symbol, c, Len(symbol)) ELSE symbol)

\* r'\(declare\s+([^\)]+)\)': "(declare", white space, a group up to the first ')'
DeclareOpen == <<40, 100, 101, 99, 108, 97, 114, 101>>
DeclareMatchAt(s, p) ==
  /\ StartsWithAt(s, p, DeclareOpen)
  /\ p + 8 <= Len(s)
  /\ IsSpace(s[p + 8])
  /\ LET e == RunEnd(s, p + 9, "not)") IN e <= Len(s) /\ e >= p + 10
\* the group: \s+ takes the white space it can and leaves the group one character
DeclareGroup(s, p) ==
  LET e == RunEnd(s, p + 9, "not)")
      w == RunEnd(s, p + 8, "space")
  IN  SubSeq(s, IF w = e THEN e - 1 ELSE w, e - 1)

\* re.findall(r'([^\s\)]+)', symbols_str), as the set the loop adds
DeclaredSymbols(t) ==
  {SubSeq(t, i, RunEnd(t, i, "symbol") - 1) :
     i \in {j \in 1..Len(t) : IsSymbolChar(t[j]) /\ (j = 1 \/ ~IsSymbolChar(t[j - 1]))}}

\* call_pattern r'\(([a-zA-Z_\-\.\?\!]+[a-zA-Z0-9_\-\.\?\!]*)\s+':
\* '(', a head symbol, then white space
CallMatchAt(s, p) ==
  /\ s[p] = LParen
  /\ p + 1 <= Len(s)
  /\ IsHeadChar(s[p + 1])
  /\ LET e == RunEnd(s, p + 1, "body") IN e <= Len(s) /\ IsSpace(s[e])
CallGroup(s, p) == SubSeq(s, p + 1, RunEnd(s, p + 1, "body") - 1)
CallEnd(s, p) == RunEnd(s, RunEnd(s, p + 1, "body"), "space")

\* the patterns, by name
MatchesAt(pattern, s, p) ==
  CASE pattern = "ns" -> NsMatchAt(s, p)
    [] pattern = "require" -> RequireMatchAt(s, p)
    [] pattern = "as" -> AsMatchAt(s, p)
    [] pattern = "def" -> DefMatchAt(s, p)
    [] pattern = "declare" -> DeclareMatchAt(s, p)
    [] pattern = "call" -> CallMatchAt(s, p)

\* the least position from `from` where the pattern matches, 0 when none:
\* where re.search (or one step of re.finditer) finds its match
FirstMatch(s, from, pattern) ==
  LET found == {p \in from..Len(s) : MatchesAt(pattern, s, p)}
  IN  IF found = {} THEN 0 ELSE Min(found)

\* re.findall(r':as\s+(\S+)', require_content), as the set the loop adds
RECURSIVE AsAliases(_, _)
AsAliases(s, from) ==
  LET p == FirstMatch(s, from, "as")
  IN  IF p = 0 THEN {} ELSE {AsGroup(s, p)} \cup AsAliases(s, AsEnd(s, p))

\* the loop over re.finditer(require_pattern, content): every alias found
RECURSIVE RequireAliases(_, _)
RequireAliases(s, from) ==
  LET p == FirstMatch(s, from, "require")
  IN  IF p = 0 THEN {}
      ELSE AsAliases(RequireGroup(s, p), 1) \cup RequireAliases(s, RequireEnd(s, p))

\* ns_name.split('.')[-1]
LastSegment(name) == LET parts == Split(name, Dot) IN parts[Len(parts)]

\* result['namespaces'] once the namespace and the aliases are extracted
Namespaces(content) ==
  LET p == FirstMatch(content, 1, "ns")
  IN  (IF p = 0 THEN {} ELSE {NsGroup(content, p), LastSegment(NsGroup(content, p))})
      \cup RequireAliases(content, 1)

\* the symbols re.finditer(call_pattern, stripped) yields, in order
RECURSIVE CallSymbols(_, _)
CallSymbols(s, from) ==
  LET p == FirstMatch(s, from, "call")
  IN  IF p = 0 THEN <<>> ELSE <<CallGroup(s, p)>> \o CallSymbols(s, CallEnd(s, p))

\* the list of special forms and core functions a call is never recorded for
SkippedSymbols ==
  {
    <<105, 102>>,   \* if
    <<119, 104, 101, 110>>,   \* when
    <<108, 101, 116>>,   \* let
    <<102, 110>>,   \* fn
    <<100, 101, 102>>,   \* def
    <<100, 101, 102, 110>>,   \* defn
    <<110, 115>>,   \* ns
    <<114, 101, 113, 117, 105, 114, 101>>,   \* require
    <<105, 109, 112, 111, 114, 116>>,   \* import
    <<115, 101, 116, 33>>,   \* set!
    <<100, 111>>,   \* do
    <<99, 111, 110, 100>>,   \* cond
    <<99, 97, 115, 101>>,   \* case
    <<116, 114, 121>>,   \* try
    <<99, 97, 116, 99, 104>>,   \* catch
    <<102, 105, 110, 97, 108, 108, 121>>,   \* finally
    <<116, 104, 114, 111, 119>>,   \* throw
    <<45, 62>>,   \* ->
    <<45, 62, 62>>,   \* ->>
    <<100, 111, 116, 111>>,   \* doto
    <<97, 110, 100>>,   \* and
    <<111, 114>>,   \* or
    <<110, 111, 116>>,   \* not
    <<110, 105, 108, 63>>,   \* nil?
    <<115, 111, 109, 101, 63>>,   \* some?
    <<105, 102, 45, 108, 101, 116>>,   \* if-let
    <<119, 104, 101, 110, 45, 108, 101, 116>>,   \* when-let
    <<119, 104, 101, 110, 45, 110, 111, 116>>,   \* when-not
    <<105, 102, 45, 110, 111, 116>>,   \* if-not
    <<99, 111, 110, 100, 45, 62>>,   \* cond->
    <<99, 111, 110, 100, 45, 62, 62>>,   \* cond->>
    <<115, 111, 109, 101, 45, 62>>,   \* some->
    <<115, 111, 109, 101, 45, 62, 62>>,   \* some->>
    <<97, 115, 45, 62>>,   \* as->
    <<108, 111, 111, 112>>,   \* loop
    <<114, 101, 99, 117, 114>>,   \* recur
    <<114, 101, 105, 102, 121>>,   \* reify
    <<112, 114, 111, 120, 121>>,   \* proxy
    <<101, 120, 116, 101, 110, 100>>,   \* extend
    <<101, 120, 116, 101, 110, 100, 45, 116, 121, 112, 101>>,   \* extend-type
    <<101, 120, 116, 101, 110, 100, 45, 112, 114, 111, 116, 111, 99, 111, 108>>,   \* extend-protocol
    <<100, 101, 102, 116, 121, 112, 101>>,   \* deftype
    <<100, 101, 102, 114, 101, 99, 111, 114, 100>>,   \* defrecord
    <<100, 101, 102, 112, 114, 111, 116, 111, 99, 111, 108>>,   \* defprotocol
    <<100, 101, 102, 105, 110, 116, 101, 114, 102, 97, 99, 101>>,   \* definterface
    <<103, 101, 110, 45, 99, 108, 97, 115, 115>>,   \* gen-class
    <<103, 101, 110, 45, 105, 110, 116, 101, 114, 102, 97, 99, 101>>,   \* gen-interface
    <<100, 101, 99, 108, 97, 114, 101>>,   \* declare
    <<113, 117, 111, 116, 101>>,   \* quote
    <<118, 97, 114>>,   \* var
    <<100, 101, 114, 101, 102>>,   \* deref
    <<114, 101, 102>>,   \* ref
    <<97, 116, 111, 109>>,   \* atom
    <<97, 103, 101, 110, 116>>,   \* agent
    <<102, 117, 116, 117, 114, 101>>,   \* future
    <<100, 101, 108, 97, 121>>,   \* delay
    <<112, 114, 111, 109, 105, 115, 101>>,   \* promise
    <<108, 111, 99, 107, 105, 110, 103>>,   \* locking
    <<109, 111, 110, 105, 116, 111, 114, 45, 101, 110, 116, 101, 114>>,   \* monitor-enter
    <<109, 111, 110, 105, 116, 111, 114, 45, 101, 120, 105, 116>>,   \* monitor-exit
    <<116, 105, 109, 101>>,   \* time
    <<119, 105, 116, 104, 45, 108, 111, 99, 97, 108, 45, 118, 97, 114, 115>>,   \* with-local-vars
    <<98, 105, 110, 100, 105, 110, 103>>,   \* binding
    <<119, 105, 116, 104, 45, 98, 105, 110, 100, 105, 110, 103, 115>>,   \* with-bindings
    <<119, 105, 116, 104, 45, 114, 101, 100, 101, 102, 115>>,   \* with-redefs
    <<119, 105, 116, 104, 45, 114, 101, 100, 101, 102, 115, 45, 102, 110>>,   \* with-redefs-fn
    <<97, 108, 116, 101, 114, 45, 118, 97, 114, 45, 114, 111, 111, 116>>,   \* alter-var-root
    <<115, 119, 97, 112, 33>>,   \* swap!
    <<114, 101, 115, 101, 116, 33>>,   \* reset!
    <<99, 111, 109, 112, 97, 114, 101, 45, 97, 110, 100, 45, 115, 101, 116, 33>>,   \* compare-and-set!
    <<99, 111, 109, 109, 117, 116, 101>>,   \* commute
    <<101, 110, 115, 117, 114, 101>>,   \* ensure
    <<100, 111, 115, 121, 110, 99>>,   \* dosync
    <<105, 111, 33>>,   \* io!
    <<115, 121, 110, 99>>,   \* sync
    <<114, 101, 102, 45, 115, 101, 116>>,   \* ref-set
    <<97, 108, 116, 101, 114>>,   \* alter
    <<114, 101, 102, 45, 104, 105, 115, 116, 111, 114, 121, 45, 99, 111, 117, 110, 116>>,   \* ref-history-count
    <<114, 101, 102, 45, 109, 97, 120, 45, 104, 105, 115, 116, 111, 114, 121>>,   \* ref-max-history
    <<114, 101, 102, 45, 109, 105, 110, 45, 104, 105, 115, 116, 111, 114, 121>>,   \* ref-min-history
    <<114, 101, 102, 45, 115, 110, 97, 112, 115, 104, 111, 116, 115>>,   \* ref-snapshots
    <<114, 101, 102, 45, 101, 110, 115, 117, 114, 101>>,   \* ref-ensure
    <<112, 97, 114, 116, 105, 97, 108>>,   \* partial
    <<99, 111, 109, 112>>,   \* comp
    <<106, 117, 120, 116>>,   \* juxt
    <<99, 111, 109, 112, 108, 101, 109, 101, 110, 116>>,   \* complement
    <<99, 111, 110, 115, 116, 97, 110, 116, 108, 121>>,   \* constantly
    <<105, 100, 101, 110, 116, 105, 116, 121>>,   \* identity
    <<102, 110, 105, 108>>,   \* fnil
    <<101, 118, 101, 114, 121, 45, 112, 114, 101, 100>>,   \* every-pred
    <<115, 111, 109, 101, 45, 102, 110>>,   \* some-fn
    <<97, 112, 112, 108, 121>>,   \* apply
    <<109, 97, 112>>,   \* map
    <<109, 97, 112, 118>>,   \* mapv
    <<109, 97, 112, 99, 97, 116>>,   \* mapcat
    <<102, 105, 108, 116, 101, 114>>,   \* filter
    <<102, 105, 108, 116, 101, 114, 118>>,   \* filterv
    <<114, 101, 109, 111, 118, 101>>,   \* remove
    <<107, 101, 101, 112>>,   \* keep
    <<107, 101, 101, 112, 45, 105, 110, 100, 101, 120, 101, 100>>,   \* keep-indexed
    <<100, 105, 115, 116, 105, 110, 99, 116>>,   \* distinct
    <<100, 105, 115, 116, 105, 110, 99, 116, 63>>,   \* distinct?
    <<99, 111, 110, 99, 97, 116>>,   \* concat
    <<99, 111, 110, 115>>,   \* cons
    <<99, 111, 110, 106>>,   \* conj
    <<105, 110, 116, 111>>,   \* into
    <<114, 101, 100, 117, 99, 101>>,   \* reduce
    <<114, 101, 100, 117, 99, 116, 105, 111, 110, 115>>,   \* reductions
    <<116, 97, 107, 101>>,   \* take
    <<100, 114, 111, 112>>,   \* drop
    <<116, 97, 107, 101, 45, 119, 104, 105, 108, 101>>,   \* take-while
    <<100, 114, 111, 112, 45, 119, 104, 105, 108, 101>>,   \* drop-while
    <<115, 112, 108, 105, 116, 45, 97, 116>>,   \* split-at
    <<115, 112, 108, 105, 116, 45, 119, 105, 116, 104>>,   \* split-with
    <<112, 97, 114, 116, 105, 116, 105, 111, 110>>,   \* partition
    <<112, 97, 114, 116, 105, 116, 105, 111, 110, 45, 97, 108, 108>>,   \* partition-all
    <<112, 97, 114, 116, 105, 116, 105, 111, 110, 45, 98, 121>>,   \* partition-by
    <<105, 110, 116, 101, 114, 108, 101, 97, 118, 101>>,   \* interleave
    <<105, 110, 116, 101, 114, 112, 111, 115, 101>>,   \* interpose
    <<99, 121, 99, 108, 101>>,   \* cycle
    <<114, 101, 112, 101, 97, 116>>,   \* repeat
    <<114, 101, 112, 101, 97, 116, 101, 100, 108, 121>>,   \* repeatedly
    <<105, 116, 101, 114, 97, 116, 101>>,   \* iterate
    <<114, 97, 110, 103, 101>>,   \* range
    <<114, 101, 115, 116>>,   \* rest
    <<110, 101, 120, 116>>,   \* next
    <<102, 110, 101, 120, 116>>,   \* fnext
    <<110, 110, 101, 120, 116>>,   \* nnext
    <<102, 102, 105, 114, 115, 116>>,   \* ffirst
    <<110, 102, 105, 114, 115, 116>>,   \* nfirst
    <<102, 105, 114, 115, 116>>,   \* first
    <<108, 97, 115, 116>>,   \* last
    <<98, 117, 116, 108, 97, 115, 116>>,   \* butlast
    <<100, 114, 111, 112, 45, 108, 97, 115, 116>>,   \* drop-last
    <<116, 97, 107, 101, 45, 108, 97, 115, 116>>,   \* take-last
    <<116, 97, 107, 101, 45, 110, 116, 104>>,   \* take-nth
    <<110, 116, 104>>,   \* nth
    <<110, 116, 104, 110, 101, 120, 116>>,   \* nthnext
    <<110, 116, 104, 114, 101, 115, 116>>,   \* nthrest
    <<102, 114, 101, 113, 117, 101, 110, 99, 105, 101, 115>>,   \* frequencies
    <<103, 114, 111, 117, 112, 45, 98, 121>>,   \* group-by
    <<118, 97, 108, 115>>,   \* vals
    <<107, 101, 121, 115>>,   \* keys
    <<107, 101, 121>>,   \* key
    <<118, 97, 108>>,   \* val
    <<115, 101, 113>>,   \* seq
    <<118, 101, 99, 116, 111, 114>>,   \* vector
    <<108, 105, 115, 116>>,   \* list
    <<104, 97, 115, 104, 45, 109, 97, 112>>,   \* hash-map
    <<97, 114, 114, 97, 121, 45, 109, 97, 112>>,   \* array-map
    <<115, 111, 114, 116, 101, 100, 45, 109, 97, 112>>,   \* sorted-map
    <<115, 111, 114, 116, 101, 100, 45, 109, 97, 112, 45, 98, 121>>,   \* sorted-map-by
    <<115, 111, 114, 116, 101, 100, 45, 115, 101, 116>>,   \* sorted-set
    <<115, 111, 114, 116, 101, 100, 45, 115, 101, 116, 45, 98, 121>>,   \* sorted-set-by
    <<104, 97, 115, 104, 45, 115, 101, 116>>,   \* hash-set
    <<115, 101, 116>>,   \* set
    <<99, 111, 110, 116, 97, 105, 110, 115, 63>>,   \* contains?
    <<103, 101, 116>>,   \* get
    <<103, 101, 116, 45, 105, 110>>,   \* get-in
    <<97, 115, 115, 111, 99>>,   \* assoc
    <<97, 115, 115, 111, 99, 45, 105, 110>>,   \* assoc-in
    <<100, 105, 115, 115, 111, 99>>,   \* dissoc
    <<100, 105, 115, 115, 111, 99, 45, 105, 110>>,   \* dissoc-in
    <<117, 112, 100, 97, 116, 101>>,   \* update
    <<117, 112, 100, 97, 116, 101, 45, 105, 110>>,   \* update-in
    <<109, 101, 114, 103, 101>>,   \* merge
    <<109, 101, 114, 103, 101, 45, 119, 105, 116, 104>>,   \* merge-with
    <<115, 101, 108, 101, 99, 116, 45, 107, 101, 121, 115>>,   \* select-keys
    <<122, 105, 112, 109, 97, 112>>,   \* zipmap
    <<105, 110, 116, 111, 45, 97, 114, 114, 97, 121>>,   \* into-array
    <<116, 111, 45, 97, 114, 114, 97, 121>>,   \* to-array
    <<97, 108, 101, 110, 103, 116, 104>>,   \* alength
    <<97, 103, 101, 116>>,   \* aget
    <<97, 115, 101, 116>>,   \* aset
    <<109, 97, 107, 101, 45, 97, 114, 114, 97, 121>>,   \* make-array
    <<118, 101, 99, 116, 111, 114, 45, 111, 102>>,   \* vector-of
    <<98, 111, 111, 108, 101, 97, 110, 45, 97, 114, 114, 97, 121>>,   \* boolean-array
    <<98, 121, 116, 101, 45, 97, 114, 114, 97, 121>>,   \* byte-array
    <<99, 104, 97, 114, 45, 97, 114, 114, 97, 121>>,   \* char-array
    <<115, 104, 111, 114, 116, 45, 97, 114, 114, 97, 121>>,   \* short-array
    <<105, 110, 116, 45, 97, 114, 114, 97, 121>>,   \* int-array
    <<108, 111, 110, 103, 45, 97, 114, 114, 97, 121>>,   \* long-array
    <<102, 108, 111, 97, 116, 45, 97, 114, 114, 97, 121>>,   \* float-array
    <<100, 111, 117, 98, 108, 101, 45, 97, 114, 114, 97, 121>>,   \* double-array
    <<111, 98, 106, 101, 99, 116, 45, 97, 114, 114, 97, 121>>,   \* object-array
    <<115, 116, 114>>,   \* str
    <<115, 116, 114, 105, 110, 103, 63>>,   \* string?
    <<107, 101, 121, 119, 111, 114, 100>>,   \* keyword
    <<107, 101, 121, 119, 111, 114, 100, 63>>,   \* keyword?
    <<115, 121, 109, 98, 111, 108>>,   \* symbol
    <<115, 121, 109, 98, 111, 108, 63>>,   \* symbol?
    <<110, 97, 109, 101>>,   \* name
    <<110, 97, 109, 101, 115, 112, 97, 99, 101>>,   \* namespace
    <<105, 100, 101, 110, 116, 63>>,   \* ident?
    <<115, 105, 109, 112, 108, 101, 45, 105, 100, 101, 110, 116, 63>>,   \* simple-ident?
    <<113, 117, 97, 108, 105, 102, 105, 101, 100, 45, 105, 100, 101, 110, 116, 63>>,   \* qualified-ident?
    <<113, 117, 97, 108, 105, 102, 105, 101, 100, 45, 107, 101, 121, 119, 111, 114, 100, 63>>,   \* qualified-keyword?
    <<113, 117, 97, 108, 105, 102, 105, 101, 100, 45, 115, 121, 109, 98, 111, 108, 63>>,   \* qualified-symbol?
    <<115, 105, 109, 112, 108, 101, 45, 107, 101, 121, 119, 111, 114, 100, 63>>,   \* simple-keyword?
    <<115, 105, 109, 112, 108, 101, 45, 115, 121, 109, 98, 111, 108, 63>>,   \* simple-symbol?
    <<103, 101, 110, 115, 121, 109>>,   \* gensym
    <<102, 111, 114, 109, 97, 116>>,   \* format
    <<112, 114, 105, 110, 116, 102>>,   \* printf
    <<112, 114, 105, 110, 116>>,   \* print
    <<112, 114, 105, 110, 116, 108, 110>>,   \* println
    <<112, 114>>,   \* pr
    <<112, 114, 110>>,   \* prn
    <<112, 114, 45, 115, 116, 114>>,   \* pr-str
    <<112, 114, 110, 45, 115, 116, 114>>,   \* prn-str
    <<112, 114, 105, 110, 116, 45, 115, 116, 114>>,   \* print-str
    <<112, 114, 105, 110, 116, 108, 110, 45, 115, 116, 114>>,   \* println-str
    <<119, 105, 116, 104, 45, 111, 117, 116, 45, 115, 116, 114>>,   \* with-out-str
    <<119, 105, 116, 104, 45, 105, 110, 45, 115, 116, 114>>,   \* with-in-str
    <<114, 101, 97, 100>>,   \* read
    <<114, 101, 97, 100, 45, 115, 116, 114, 105, 110, 103>>,   \* read-string
    <<114, 101, 97, 100, 45, 108, 105, 110, 101>>,   \* read-line
    <<108, 105, 110, 101, 45, 115, 101, 113>>,   \* line-seq
    <<115, 108, 117, 114, 112>>,   \* slurp
    <<115, 112, 105, 116>>,   \* spit
    <<114, 101, 97, 100, 101, 114>>,   \* reader
    <<119, 114, 105, 116, 101, 114>>,   \* writer
    <<105, 110, 112, 117, 116, 45, 115, 116, 114, 101, 97, 109>>,   \* input-stream
    <<111, 117, 116, 112, 117, 116, 45, 115, 116, 114, 101, 97, 109>>,   \* output-stream
    <<102, 105, 108, 101, 45, 115, 101, 113>>,   \* file-seq
    <<115, 104>>,   \* sh
    <<115, 104, 117, 116, 100, 111, 119, 110, 45, 97, 103, 101, 110, 116, 115>>,   \* shutdown-agents
    <<104, 97, 108, 116, 45, 119, 104, 101, 110>>,   \* halt-when
    <<104, 97, 108, 116, 45, 119, 104, 101, 110, 33>>,   \* halt-when!
    <<101, 114, 114, 111, 114, 45, 104, 97, 110, 100, 108, 101, 114>>,   \* error-handler
    <<101, 114, 114, 111, 114, 45, 109, 111, 100, 101>>,   \* error-mode
    <<115, 101, 110, 100>>,   \* send
    <<115, 101, 110, 100, 45, 111, 102, 102>>,   \* send-off
    <<115, 101, 110, 100, 45, 118, 105, 97>>,   \* send-via
    <<114, 101, 115, 116, 97, 114, 116, 45, 97, 103, 101, 110, 116>>,   \* restart-agent
    <<97, 119, 97, 105, 116>>,   \* await
    <<97, 119, 97, 105, 116, 45, 102, 111, 114>>,   \* await-for
    <<97, 119, 97, 105, 116, 49>>,   \* await1
    <<97, 119, 97, 105, 116, 45, 102, 111, 114, 49>>,   \* await-for1
    <<97, 103, 101, 110, 116, 45, 101, 114, 114, 111, 114>>,   \* agent-error
    <<97, 103, 101, 110, 116, 45, 101, 114, 114, 111, 114, 115>>,   \* agent-errors
    <<115, 101, 116, 45, 101, 114, 114, 111, 114, 45, 104, 97, 110, 100, 108, 101, 114, 33>>,   \* set-error-handler!
    <<115, 101, 116, 45, 101, 114, 114, 111, 114, 45, 109, 111, 100, 101, 33>>,   \* set-error-mode!
    <<97, 100, 100, 45, 119, 97, 116, 99, 104>>,   \* add-watch
    <<114, 101, 109, 111, 118, 101, 45, 119, 97, 116, 99, 104>>,   \* remove-watch
    <<110, 111, 116, 105, 102, 121, 45, 119, 97, 116, 99, 104, 101, 115>>,   \* notify-watches
    <<97, 100, 100, 45, 119, 97, 116, 99, 104, 101, 114>>,   \* add-watcher
    <<114, 101, 109, 111, 118, 101, 45, 119, 97, 116, 99, 104, 101, 114>>,   \* remove-watcher
    <<110, 111, 116, 105, 102, 121, 45, 119, 97, 116, 99, 104, 101, 114, 115>>,   \* notify-watchers
    <<114, 101, 97, 108, 105, 122, 101, 100, 63>>   \* realized?
  }

\* any(symbol.startswith(ns + '.') for ns in result['namespaces'])
HasLocalPrefix(symbol, namespaces) ==
  \E ns \in namespaces : StartsWithAt(symbol, 1, ns \o <<Dot>>)

\* the three `continue` tests of the call loop: the call is not recorded
IsSkipped(symbol, namespaces) ==
  \/ symbol \in SkippedSymbols
  \/ Contains(symbol, <<Dot>>) /\ ~HasLocalPrefix(symbol, namespaces)
  \/ IsUpper(symbol[1])
  \/ Contains(symbol, <<Dollar>>)

(***************************************************************************)
(* parse_file: the extraction record of one file.                          *)
(***************************************************************************)
\* result['definitions'][symbol] = line_num
RecordDefinition(definitions, symbol, line_num) == (symbol :> line_num) @@ definitions

\* re.search(def pattern, stripped) and the normalisation of its group;
\* <<>> when the line holds no definition
DefinedSymbol(stripped) ==
  LET p == FirstMatch(stripped, 1, "def")
  IN  IF p = 0 THEN <<>> ELSE StripMetadata(DefGroup(stripped, p))

\* re.search(declare pattern, stripped) and the symbols of its group
LineDeclares(stripped) ==
  LET p == FirstMatch(stripped, 1, "declare")
  IN  IF p = 0 THEN {} ELSE DeclaredSymbols(DeclareGroup(stripped, p))

\* the calls the line adds: the matches of the call pattern that are not skipped
RECURSIVE KeptCalls(_, _, _)
KeptCalls(symbols, line_num, namespaces) ==
  IF symbols = <<>> THEN <<>>
  ELSE (IF IsSkipped(Head(symbols), namespaces) THEN <<>> ELSE <<<<line_num, Head(symbols)>>>>)
       \o KeptCalls(Tail(symbols), line_num, namespaces)

\* one pass of the loop over enumerate(lines, 1)
ScanLine(result, line_num, line) ==
  LET stripped == Strip(line)
  IN  IF stripped = <<>> \/ stripped[1] = Semicolon THEN result
      ELSE LET symbol == DefinedSymbol(stripped)
           IN  [definitions |->
                  IF symbol # <<>> /\ symbol[1] # LParen
                  THEN RecordDefinition(result.definitions, symbol, line_num)
                  ELSE result.definitions,
                declares |-> result.declares \cup LineDeclares(stripped),
                calls |-> result.calls
                            \o KeptCalls(CallSymbols(stripped, 1), line_num, result.namespaces),
                namespaces |-> result.namespaces]

RECURSIVE ScanLines(_, _, _)
ScanLines(result, lines, line_num) ==
  IF line_num > Len(lines) THEN result
  ELSE ScanLines(ScanLine(result, line_num, lines[line_num]), lines, line_num + 1)

\* definitions: symbol -> line; declares: set of symbols;
\* calls: sequence of <<line, symbol>>; namespaces: set of prefixes
parse_file(content) ==
  ScanLines([definitions |-> <<>>, declares |-> {}, calls |-> <<>>,
             namespaces |-> Namespaces(content)],
            Split(content, Newline), 1)

(***************************************************************************)
(* analyze_file: the check of every recorded call.                         *)
(***************************************************************************)
\* str(n) of a natural number
RECURSIVE Str(_)
Str(n) == IF n < 10 THEN <<48 + n>> ELSE Str(n \div 10) \o <<48 + (n % 10)>>

\* f"函数 '{symbol}' 在第 {call_line} 行被调用，但在第 {def_line} 行才定义（缺少declare）"
Message(symbol, call_line, def_line) ==
  <<20989, 25968, 32, 39>> \o symbol \o <<39, 32, 22312, 31532, 32>> \o Str(call_line)
    \o <<32, 34892, 34987, 35843, 29992, 65292, 20294, 22312, 31532, 32>> \o Str(def_line) \o <<32, 34892, 25165, 23450, 20041, 65288, 32570, 23569, 100, 101, 99, 108, 97, 114, 101, 65289>>

\* f"分析文件时出错: {str(e)}"
ErrorMessage(e) == <<20998, 26512, 25991, 20214, 26102, 20986, 38169, 58, 32>> \o e

\* a variant of DefinedLater: `if def_line >= call_line`
DefinedLaterOrSame(def_line, call_line) == def_line >= call_line

\* `if def_line > call_line`
DefinedLater(def_line, call_line) == def_line > call_line

\* the tests a call passes to be reported: not declared, defined, defined later
IsReported(result, call) ==
  /\ call[2] \notin result.declares
  /\ call[2] \in DOMAIN result.definitions
  /\ DefinedLater(result.definitions[call[2]], call[1])

\* a variant of CheckCalls: the loop breaks after the first violation it appends
CheckCallsFirstOnly(found, file_path, result, i) ==
  LET hits == {j \in i..Len(result.calls) : IsReported(result, result.calls[j])}
  IN  IF hits = {} THEN found
      ELSE LET call == result.calls[CHOOSE j \in hits : \A k \in hits : j <= k]
           IN  Append(found, <<file_path, call[1],
                               Message(call[2], call[1], result.definitions[call[2]])>>)

\* the loop `for call_line, symbol in result['calls']`, from the i-th call on
RECURSIVE CheckCalls(_, _, _, _)
CheckCalls(found, file_path, result, i) ==
  IF i > Len(result.calls) THEN found
  ELSE LET call == result.calls[i]
       IN  CheckCalls(
             IF IsReported(result, call)
             THEN Append(found, <<file_path, call[1],
                                  Message(call[2], call[1], result.definitions[call[2]])>>)
             ELSE found,
             file_path, result, i + 1)

\* a variant of OnException: the list is assigned, not appended to
OnExceptionReset(found, file_path, e) == <<<<file_path, 0, ErrorMessage(e)>>>>

\* the `except Exception as e` branch: one entry of line 0 is appended
OnException(found, file_path, e) == Append(found, <<file_path, 0, ErrorMessage(e)>>)

\* self.issues after analyze_file(file_path); open() raises for an unreadable file
analyze_file(found, file_path, file) ==
  IF file.readable
  THEN CheckCalls(found, file_path, parse_file(file.content), 1)
  ELSE OnException(found, file_path, file.error)

(***************************************************************************)
(* find_clj_files: the files analysed and their order.                     *)
(***************************************************************************)
\* a < b for str: the code points decide, a proper prefix is smaller
StrLess(a, b) ==
  \E k \in 1..(Len(b)) :
    /\ \A j \in 1..(k - 1) : j <= Len(a) /\ a[j] = b[j]
    /\ k > Len(a) \/ (k <= Len(a) /\ a[k] < b[k])

\* a < b for pathlib.Path: the tuples of parts are compared part by part
\* (all paths lie under one root, so the root part is the same in each)
PathLess(a, b) ==
  LET pa == Split(a, Slash)
      pb == Split(b, Slash)
  IN  \E k \in 1..Len(pb) :
        /\ \A j \in 1..(k - 1) : j <= Len(pa) /\ pa[j] = pb[j]
        /\ k > Len(pa) \/ (k <= Len(pa) /\ StrLess(pa[k], pb[k]))

\* sorted(clj_files)
RECURSIVE SortPaths(_)
SortPaths(S) ==
  IF S = {} THEN <<>>
  ELSE LET m == CHOOSE x \in S : \A y \in S : x = y \/ PathLess(x, y)
       IN  <<m>> \o SortPaths(S \ {m})

\* ".clj", the suffix root.rglob("*.clj") selects
CljSuffix == <<46, 99, 108, 106>>
\* "build", the directory name skipped
BuildName == <<98, 117, 105, 108, 100>>

\* path.name
PathName(path) == LET parts == Split(path, Slash) IN parts[Len(parts)]

\* path.name matches "*.clj"
IsCljFile(path) ==
  LET name == PathName(path)
  IN  Len(name) >= Len(CljSuffix)
      /\ StartsWithAt(name, Len(name) - Len(CljSuffix) + 1, CljSuffix)

\* the sorted list of the .clj files whose path does not contain "build"
find_clj_files(files) ==
  SortPaths({p \in DOMAIN files : IsCljFile(p) /\ ~Contains(p, BuildName)})

(***************************************************************************)
(* print_report and the exit status.                                       *)
(***************************************************************************)
\* (line, message) tuples: a < b
EntryLess(a, b) == a[1] < b[1] \/ (a[1] = b[1] /\ StrLess(a[2], b[2]))

\* sorted() of a list: a stable insertion of each element in turn
RECURSIVE InsertEntry(_, _)
InsertEntry(sorted, x) ==
  IF sorted = <<>> THEN <<x>>
  ELSE IF EntryLess(x, Head(sorted)) THEN <<x>> \o sorted
  ELSE <<Head(sorted)>> \o InsertEntry(Tail(sorted), x)

\* a variant of SortEntries: the entries are printed in list order
UnsortedEntries(entries) == entries

RECURSIVE SortEntries(_)
SortEntries(entries) ==
  IF entries = <<>> THEN <<>>
  ELSE InsertEntry(SortEntries(SubSeq(entries, 1, Len(entries) - 1)), entries[Len(entries)])

\* sorted(by_file.keys())
RECURSIVE SortStrings(_)
SortStrings(S) ==
  IF S = {} THEN <<>>
  ELSE LET m == CHOOSE x \in S : \A y \in S : x = y \/ StrLess(x, y)
       IN  <<m>> \o SortStrings(S \ {m})

\* by_file[file_path]: the (line, message) tuples of one file, in list order
RECURSIVE FileEntries(_, _)
FileEntries(found, file_path) ==
  IF found = <<>> THEN <<>>
  ELSE (IF Head(found)[1] = file_path THEN <<<<Head(found)[2], Head(found)[3]>>>> ELSE <<>>)
       \o FileEntries(Tail(found), file_path)

\* f"{line_num:4d}": right-aligned in four columns
Pad4(n) == LET d == Str(n) IN [i \in 1..(IF Len(d) < 4 THEN 4 - Len(d) ELSE 0) |-> 32] \o d

\* "=" * 80 and "-" * 80
Rule(c) == [i \in 1..80 |-> c]

\* f"  行 {line_num:4d}: {message}"
EntryLine(entry) == <<32, 32, 34892, 32>> \o Pad4(entry[1]) \o <<58, 32>> \o entry[2]

\* the prints of one file's block
RECURSIVE EntryLines(_)
EntryLines(entries) ==
  IF entries = <<>> THEN <<>> ELSE <<EntryLine(Head(entries))>> \o EntryLines(Tail(entries))

\* f"\n文件: {file_path}"
FileHeader(file_path) == <<Newline>> \o <<25991, 20214, 58, 32>> \o file_path

FileBlock(found, file_path) ==
  <<FileHeader(file_path), Rule(45)>> \o EntryLines(SortEntries(FileEntries(found, file_path)))

RECURSIVE FileBlocks(_, _)
FileBlocks(found, paths) ==
  IF paths = <<>> THEN <<>>
  ELSE FileBlock(found, Head(paths)) \o FileBlocks(found, Tail(paths))

\* "[OK] 未发现声明顺序异常！"
OkLine == <<91, 79, 75, 93, 32, 26410, 21457, 29616, 22768, 26126, 39034, 24207, 24322, 24120, 65281>>

\* f"发现 {len(self.issues)} 个潜在问题：\n"
CountLine(n) == <<21457, 29616, 32>> \o Str(n) \o <<32, 20010, 28508, 22312, 38382, 39064, 65306>> \o <<Newline>>

\* the strings print_report prints, one per call of print
print_report(found) ==
  IF found = <<>> THEN <<OkLine>>
  ELSE <<CountLine(Len(found)), Rule(61)>>
       \o FileBlocks(found, SortStrings({found[i][1] : i \in 1..Len(found)}))

\* a variant of ExitStatus: only ordering violations count, failures of line 0 do not
ExitStatusOrderingOnly(found) ==
  IF \E k \in 1..Len(found) : found[k][2] # 0 THEN 1 ELSE 0

\* sys.exit(1) if analyzer.issues else sys.exit(0)
ExitStatus(found) == IF found # <<>> THEN 1 ELSE 0

(***************************************************************************)
(* The inputs: the texts of the files and the trees under the root.        *)
(***************************************************************************)
\* the lines a scanned text is drawn from
\* "(defn main [] (helper))"
LineCallNoArgs == <<40, 100, 101, 102, 110, 32, 109, 97, 105, 110, 32, 91, 93, 32, 40, 104, 101, 108, 112, 101, 114, 41, 41>>
\* "(defn helper [] 1)"
LineDefHelper == <<40, 100, 101, 102, 110, 32, 104, 101, 108, 112, 101, 114, 32, 91, 93, 32, 49, 41>>
\* "(declare helper)"
LineDeclareHelper == <<40, 100, 101, 99, 108, 97, 114, 101, 32, 104, 101, 108, 112, 101, 114, 41>>
\* "  (run (util 1) (helper 2))"
LineCalls == <<32, 32, 40, 114, 117, 110, 32, 40, 117, 116, 105, 108, 32, 49, 41, 32, 40, 104, 101, 108, 112, 101, 114, 32, 50, 41, 41>>
\* "(defn ^:private helper [] 1)"
LineDefMetadata == <<40, 100, 101, 102, 110, 32, 94, 58, 112, 114, 105, 118, 97, 116, 101, 32, 104, 101, 108, 112, 101, 114, 32, 91, 93, 32, 49, 41>>
\* "; (declare helper)"
LineComment == <<59, 32, 40, 100, 101, 99, 108, 97, 114, 101, 32, 104, 101, 108, 112, 101, 114, 41>>
\* "(declare util) (declare helper)"
LineTwoDeclares == <<40, 100, 101, 99, 108, 97, 114, 101, 32, 117, 116, 105, 108, 41, 32, 40, 100, 101, 99, 108, 97, 114, 101, 32, 104, 101, 108, 112, 101, 114, 41>>
\* "(defn helper [] (helper 1))"
LineDefCallsItself == <<40, 100, 101, 102, 110, 32, 104, 101, 108, 112, 101, 114, 32, 91, 93, 32, 40, 104, 101, 108, 112, 101, 114, 32, 49, 41, 41>>
\* "(defn util [] 1)"
LineDefUtil == <<40, 100, 101, 102, 110, 32, 117, 116, 105, 108, 32, 91, 93, 32, 49, 41>>
\* "(ns my.app (:require [clojure.string :as s]))"
LineNs == <<40, 110, 115, 32, 109, 121, 46, 97, 112, 112, 32, 40, 58, 114, 101, 113, 117, 105, 114, 101, 32, 91, 99, 108, 111, 106, 117, 114, 101, 46, 115, 116, 114, 105, 110, 103, 32, 58, 97, 115, 32, 115, 93, 41, 41>>
\* "(app.run (s.join 1) (lib.go 2) (Thread. 3) (str 4))"
LineDotted == <<40, 97, 112, 112, 46, 114, 117, 110, 32, 40, 115, 46, 106, 111, 105, 110, 32, 49, 41, 32, 40, 108, 105, 98, 46, 103, 111, 32, 50, 41, 32, 40, 84, 104, 114, 101, 97, 100, 46, 32, 51, 41, 32, 40, 115, 116, 114, 32, 52, 41, 41>>
\* "(def app.run 1)"
LineDefDotted == <<40, 100, 101, 102, 32, 97, 112, 112, 46, 114, 117, 110, 32, 49, 41>>

LinePool ==
  {LineCallNoArgs, LineDefHelper, LineDeclareHelper, LineCalls, LineDefMetadata,
   LineComment, LineTwoDeclares, LineDefCallsItself, <<>>}

\* "\n".join(lines)
RECURSIVE Join(_)
Join(lines) ==
  IF Len(lines) = 1 THEN lines[1]
  ELSE Join(SubSeq(lines, 1, Len(lines) - 1)) \o <<Newline>> \o lines[Len(lines)]

\* every text of one to MaxLines lines of the pool
ScanTexts == {Join(ls) : ls \in UNION {[1..n -> LinePool] : n \in 1..MaxLines}}

\* the texts of the files of a tree of several files
RunTexts ==
  {Join(<<LineDefHelper, LineCalls>>),
   Join(<<LineCalls, LineDefUtil, LineDefHelper>>),
   Join(<<LineNs, LineDotted, LineDefDotted>>)}

\* str(e) of the exception open() raises: "[Errno 13] Permission denied"
PermissionDenied == <<91, 69, 114, 114, 110, 111, 32, 49, 51, 93, 32, 80, 101, 114, 109, 105, 115, 115, 105, 111, 110, 32, 100, 101, 110, 105, 101, 100>>

ReadableFile(text) == [readable |-> TRUE, content |-> text, error |-> <<>>]
UnreadableFile == [readable |-> FALSE, content |-> <<>>, error |-> PermissionDenied]

\* the root directory and the paths of the files a tree may hold
\* "/r"
RootDir == <<47, 114>>
\* "/r/core.clj"
PathCore == <<47, 114, 47, 99, 111, 114, 101, 46, 99, 108, 106>>
\* "/r/a/b.clj", "/r/a-b.clj": sorted one way as paths, the other way as strings
PathNested == <<47, 114, 47, 97, 47, 98, 46, 99, 108, 106>>
PathDashed == <<47, 114, 47, 97, 45, 98, 46, 99, 108, 106>>
\* "/r/build/c.clj": skipped as build output
PathBuild == <<47, 114, 47, 98, 117, 105, 108, 100, 47, 99, 46, 99, 108, 106>>
\* "/r/notes.txt": not a .clj file
PathText == <<47, 114, 47, 110, 111, 116, 101, 115, 46, 116, 120, 116>>

\* "/r/b.clj"
PathLast == <<47, 114, 47, 98, 46, 99, 108, 106>>

RunPaths == {PathNested, PathDashed, PathLast, PathBuild, PathText}

\* a tree holding one file, of any scanned text or unreadable
ScanTrees == {(PathCore :> f) : f \in {ReadableFile(t) : t \in ScanTexts} \cup {UnreadableFile}}

\* a tree of at most MaxFiles files, each of a fixed text or unreadable
RunTrees ==
  UNION {[S -> {ReadableFile(t) : t \in RunTexts} \cup {UnreadableFile}] :
           S \in {T \in SUBSET RunPaths : Cardinality(T) <= MaxFiles}}

(***************************************************************************)
(* The run of main().                                                      *)
(***************************************************************************)
VARIABLES
  fs,         \* the files under the root directory: path -> file
  pc,         \* where main() stands
  clj_files,  \* the list find_clj_files returned
  done,       \* how many files of clj_files the loop has analysed
  issues,     \* self.issues: sequence of <<file, line, message>>
  stdout,     \* the strings printed, one per call of print
  exit_code   \* the status passed to sys.exit, -1 while running

vars == <<fs, pc, clj_files, done, issues, stdout, exit_code>>

\* f"分析目录: {root_dir}\n"
DirLine == <<20998, 26512, 30446, 24405, 58, 32>> \o RootDir \o <<Newline>>

\* f"找到 {len(clj_files)} 个Clojure文件，开始分析...\n"
FoundLine(n) == <<25214, 21040, 32>> \o Str(n) \o <<32, 20010, 67, 108, 111, 106, 117, 114, 101, 25991, 20214, 65292, 24320, 22987, 20998, 26512, 46, 46, 46>> \o <<Newline>>

Init ==
  /\ fs \in ScanTrees \cup RunTrees
  /\ pc = "main"
  /\ clj_files = <<>>
  /\ done = 0
  /\ issues = <<>>
  /\ stdout = <<>>
  /\ exit_code = -1

\* main() up to the loop of analyze_directory: the files are found and counted
FindFiles ==
  /\ pc = "main"
  /\ clj_files' = find_clj_files(fs)
  /\ stdout' = <<DirLine, FoundLine(Len(find_clj_files(fs)))>>
  /\ pc' = "analyze"
  /\ UNCHANGED <<fs, done, issues, exit_code>>

\* one pass of `for file_path in clj_files: self.analyze_file(file_path)`
AnalyzeFile ==
  /\ pc = "analyze"
  /\ done < Len(clj_files)
  /\ issues' = analyze_file(issues, clj_files[done + 1], fs[clj_files[done + 1]])
  /\ done' = done + 1
  /\ UNCHANGED <<fs, pc, clj_files, stdout, exit_code>>

\* the loop is over: analyzer.print_report()
PrintReport ==
  /\ pc = "analyze"
  /\ done = Len(clj_files)
  /\ stdout' = stdout \o print_report(issues)
  /\ pc' = "exit"
  /\ UNCHANGED <<fs, clj_files, done, issues, exit_code>>

\* sys.exit
Exit ==
  /\ pc = "exit"
  /\ exit_code' = ExitStatus(issues)
  /\ pc' = "exited"
  /\ UNCHANGED <<fs, clj_files, done, issues, stdout>>

Next == FindFiles \/ AnalyzeFile \/ PrintReport \/ Exit

Spec == Init /\ [][Next]_vars

(***************************************************************************)
(* What the claims speak of.                                               *)
(***************************************************************************)
\* the files the loop has analysed so far
Analysed == {clj_files[i] : i \in 1..done}

\* once the run has ended: the analysed files that could be read
AnalysedRead == IF pc = "exited" THEN {f \in Analysed : fs[f].readable} ELSE {}

\* the extraction record and the lines of an analysed file
RecordOf(f) == parse_file(fs[f].content)
LinesOf(f) == Split(fs[f].content, Newline)

\* the entries of the violation list recorded for file f, in list order
RECURSIVE IssuesOf(_, _)
IssuesOf(found, f) ==
  IF found = <<>> THEN <<>>
  ELSE (IF Head(found)[1] = f THEN <<Head(found)>> ELSE <<>>) \o IssuesOf(Tail(found), f)

\* the call entry c of record r qualifies: defined, not declared, defined later
Qualifies(r, c) ==
  /\ c[2] \in DOMAIN r.definitions
  /\ c[2] \notin r.declares
  /\ r.definitions[c[2]] > c[1]

\* an entry of the list names symbol s: its message is the one written for s
Names(e, s, f) ==
  \E d \in 1..Len(LinesOf(f)) : e[3] = Message(s, e[2], d)

\* the symbols the calls of a record name
CalledSymbols(r) == {r.calls[i][2] : i \in 1..Len(r.calls)}

\* line is not blank and not a comment line
IsCodeLine(line) == Strip(line) # <<>> /\ Strip(line)[1] # Semicolon

\* "helper", "^:private"
Helper == <<104, 101, 108, 112, 101, 114>>
PrivateMark == <<94, 58, 112, 114, 105, 118, 97, 116, 101>>

(***************************************************************************)
(* C1  Soundness.  When the run has ended, every violation recorded for a  *)
(* file that was read stems from a call entry (L, s) of the file's         *)
(* extraction record with s a key of definitions, s not declared, and      *)
(* definitions[s] > L; its message is the one written for                  *)
(* (s, L, definitions[s]).                                                 *)
(***************************************************************************)
C1_Soundness ==
  \A f \in AnalysedRead :
    LET r == RecordOf(f)
        mine == IssuesOf(issues, f)
    IN  \A k \in 1..Len(mine) :
          \E i \in 1..Len(r.calls) :
            LET c == r.calls[i]
            IN  /\ mine[k][2] = c[1]
                /\ c[2] \in DOMAIN r.definitions
                /\ c[2] \notin r.declares
                /\ r.definitions[c[2]] > c[1]
                /\ mine[k][3] = Message(c[2], c[1], r.definitions[c[2]])

\* a finished run over a file with a violation, a call of a symbol neither
\* defined nor declared, and a call on the line of its own definition
C1_Witness ==
  /\ pc = "exited"
  /\ \E f \in AnalysedRead :
       LET r == RecordOf(f)
       IN  /\ IssuesOf(issues, f) # <<>>
           /\ \E i \in 1..Len(r.calls) :
                r.calls[i][2] \notin DOMAIN r.definitions /\ r.calls[i][2] \notin r.declares
           /\ \E i \in 1..Len(r.calls) :
                /\ r.calls[i][2] \in DOMAIN r.definitions
                /\ r.definitions[r.calls[i][2]] = r.calls[i][1]

(***************************************************************************)
(* C2  Completeness.  When the run has ended, the violations recorded for  *)
(* a file that was read are exactly the qualifying call entries of its     *)
(* record (defined on a later line D than the call line L, never           *)
(* declared), one violation per entry, in the order of calls, each citing  *)
(* its L and D.                                                            *)
(***************************************************************************)
\* the positions in calls of the entries that qualify
QualifyingCalls(r) == {i \in 1..Len(r.calls) : Qualifies(r, r.calls[i])}

\* the k-th smallest member of a set q of positions
Kth(q, k) == CHOOSE i \in q : Cardinality({j \in q : j <= i}) = k

C2_Completeness ==
  \A f \in AnalysedRead :
    LET r == RecordOf(f)
        mine == IssuesOf(issues, f)
        q == QualifyingCalls(r)
    IN  /\ Len(mine) = Cardinality(q)
        /\ \A k \in 1..Len(mine) :
             LET c == r.calls[Kth(q, k)]
             IN  mine[k] = <<f, c[1], Message(c[2], c[1], r.definitions[c[2]])>>

\* a finished run over a file where one symbol is called from two lines
\* before its definition: two violations for it
C2_Witness ==
  /\ pc = "exited"
  /\ \E f \in AnalysedRead :
       LET r == RecordOf(f)
       IN  \E i, j \in QualifyingCalls(r) :
             /\ i < j
             /\ r.calls[i][2] = r.calls[j][2]
             /\ r.calls[i][1] < r.calls[j][1]
             /\ Len(IssuesOf(issues, f)) >= 2

(***************************************************************************)
(* C3  A declare form naming s on any code line of a file suppresses every *)
(* violation for s in that file.                                           *)
(***************************************************************************)
\* the text t lists symbol s between white space
Lists(t, s) ==
  \E i \in 1..Len(t) :
    /\ StartsWithAt(t, i, s)
    /\ i = 1 \/ IsSpace(t[i - 1])
    /\ i + Len(s) > Len(t) \/ IsSpace(t[i + Len(s)])

\* the line holds a form "(declare ... s ...)"
HasDeclareOf(line, s) ==
  \E p \in 1..Len(line) :
    /\ StartsWithAt(line, p, DeclareOpen)
    /\ \E e \in (p + 9)..Len(line) :
         /\ line[e] = RParen
         /\ \A k \in (p + 8)..(e - 1) : line[k] # RParen /\ line[k] # LParen
         /\ IsSpace(line[p + 8])
         /\ Lists(SubSeq(line, p + 8, e - 1), s)

\* the file declares s on one of its code lines
DeclaresInText(f, s) ==
  \E n \in 1..Len(LinesOf(f)) :
    IsCodeLine(LinesOf(f)[n]) /\ HasDeclareOf(LinesOf(f)[n], s)

C3_DeclareSuppresses ==
  \A f \in AnalysedRead :
    \A s \in CalledSymbols(RecordOf(f)) :
      DeclaresInText(f, s) =>
        \A k \in 1..Len(IssuesOf(issues, f)) : ~Names(IssuesOf(issues, f)[k], s, f)

(***************************************************************************)
(* C4  First occurrence wins: definitions[s] is the first line that        *)
(* defines s, and the violations for s cite that line.                     *)
(***************************************************************************)
\* the lines of the file on which the scanner finds a definition of s
DefinitionLines(f, s) ==
  {n \in 1..Len(LinesOf(f)) :
     IsCodeLine(LinesOf(f)[n]) /\ DefinedSymbol(Strip(LinesOf(f)[n])) = s}

C4_FirstDefinitionWins ==
  \A f \in AnalysedRead :
    LET r == RecordOf(f)
    IN  \A s \in DOMAIN r.definitions :
          /\ r.definitions[s] \in DefinitionLines(f, s)
          /\ \A n \in DefinitionLines(f, s) : r.definitions[s] <= n
          /\ \A k \in 1..Len(IssuesOf(issues, f)) :
               LET e == IssuesOf(issues, f)[k]
               IN  Names(e, s, f) => e[3] = Message(s, e[2], r.definitions[s])

(***************************************************************************)
(* C5  A symbol with a definition on a line before every one of its calls  *)
(* yields no violation, also when it is defined again further down.        *)
(***************************************************************************)
C5_DefinedBeforeCalls ==
  \A f \in AnalysedRead :
    LET r == RecordOf(f)
    IN  \A s \in CalledSymbols(r) :
          (\E n \in DefinitionLines(f, s) :
             \A i \in 1..Len(r.calls) : r.calls[i][2] = s => n < r.calls[i][1])
          => \A k \in 1..Len(IssuesOf(issues, f)) : ~Names(IssuesOf(issues, f)[k], s, f)

(***************************************************************************)
(* C6  Scenario: line 1 is "(defn main [] (helper))", line 3 is            *)
(* "(defn helper [] 1)", line 2 holds no code: exactly one violation,      *)
(* citing call line 1 and definition line 3.                               *)
(***************************************************************************)
C6_CallWithoutArguments ==
  \A f \in AnalysedRead :
    (/\ Len(LinesOf(f)) = 3
     /\ LinesOf(f)[1] = LineCallNoArgs
     /\ ~IsCodeLine(LinesOf(f)[2])
     /\ LinesOf(f)[3] = LineDefHelper)
    => IssuesOf(issues, f) = <<<<f, 1, Message(Helper, 1, 3)>>>>

(***************************************************************************)
(* C7  Failure isolation.  A file that cannot be processed adds exactly    *)
(* one entry (file, 0, failure description) and the loop moves on to the   *)
(* next file; no step changes or removes an entry already recorded; the    *)
(* report is printed only once every file of the sorted list has been      *)
(* analysed, and after every step the run has exited or can take a further *)
(* step, each step moving it forward, so it reaches the report.            *)
(***************************************************************************)
\* found is an initial part of longer
IsPrefix(found, longer) ==
  Len(found) <= Len(longer) /\ SubSeq(longer, 1, Len(found)) = found

\* how far main() has come
Rank(at) == CASE at = "main" -> 0 [] at = "analyze" -> 1 [] at = "exit" -> 2 [] at = "exited" -> 3

C7_FailureStep ==
  /\ IsPrefix(issues, issues')
  /\ (pc = "analyze" /\ done < Len(clj_files) /\ ~fs[clj_files[done + 1]].readable)
       => /\ issues' = Append(issues, <<clj_files[done + 1], 0,
                                        ErrorMessage(fs[clj_files[done + 1]].error)>>)
          /\ done' = done + 1
          /\ pc' = "analyze"
  /\ (pc' = "exit" /\ pc # "exit") =>
       /\ done = Len(clj_files)
       /\ clj_files = find_clj_files(fs)
       /\ \A i \in 1..Len(clj_files) : IssuesOf(issues, clj_files[i]) # <<>> \/ fs[clj_files[i]].readable
  /\ Rank(pc') > Rank(pc) \/ (pc' = pc /\ done' = done + 1)
  /\ pc' = "analyze" => done' <= Len(clj_files')

C7_FailureIsolation == [][C7_FailureStep]_vars

\* a finished run where the failing file is neither the first nor the last:
\* entries recorded before the failure and after it
C7_Witness ==
  /\ pc = "exited"
  /\ \E k \in 2..(Len(issues) - 1) :
       /\ issues[k][2] = 0
       /\ ~fs[issues[k][1]].readable
       /\ issues[k - 1][2] # 0
       /\ issues[k + 1][2] # 0

(***************************************************************************)
(* C8  The exit status is 0 exactly when no violation was recorded, 1      *)
(* otherwise, and the success line is printed exactly when it is 0.        *)
(***************************************************************************)
C8_ExitStatus ==
  /\ pc # "exited" => exit_code = -1
  /\ pc = "exited" =>
       /\ exit_code \in {0, 1}
       /\ exit_code = 0 <=> issues = <<>>
       /\ exit_code = 0 <=> \E i \in 1..Len(stdout) : stdout[i] = OkLine

\* a run that exits with 1 on synthetic failure entries alone
C8_Witness ==
  /\ pc = "exited"
  /\ exit_code = 1
  /\ issues # <<>>
  /\ \A k \in 1..Len(issues) : issues[k][2] = 0

(***************************************************************************)
(* C9  The report.  With violations recorded, the header gives their       *)
(* number; every file with violations has one block; the blocks are in     *)
(* ascending order of the path strings; a block's lines are the file's     *)
(* violations, each once, in ascending (line, message) order.              *)
(***************************************************************************)
\* the prints of print_report: what follows the two lines of the start
ReportLines == SubSeq(stdout, 3, Len(stdout))

\* the files with a violation
Offenders == {issues[k][1] : k \in 1..Len(issues)}

\* the positions in the report of the block headers
HeaderPositions == {i \in 1..Len(ReportLines) : \E f \in Offenders : ReportLines[i] = FileHeader(f)}

\* the position of the header of f, and where its block ends
HeaderOf(f) == CHOOSE i \in HeaderPositions : ReportLines[i] = FileHeader(f)
BlockEnd(f) ==
  LET later == {i \in HeaderPositions : i > HeaderOf(f)}
  IN  IF later = {} THEN Len(ReportLines)
      ELSE (CHOOSE i \in later : \A j \in later : i <= j) - 1

\* the lines printed for the violations of f
BlockLines(f) == SubSeq(ReportLines, HeaderOf(f) + 2, BlockEnd(f))

\* how often x occurs in the sequence s
Count(s, x) == Cardinality({i \in 1..Len(s) : s[i] = x})

C9_Report ==
  (pc \in {"exit", "exited"} /\ issues # <<>>) =>
    /\ ReportLines[1] = CountLine(Len(issues))
    /\ ReportLines[2] = Rule(61)
    /\ Len(ReportLines) = 2 + 2 * Cardinality(Offenders) + Len(issues)
    /\ \A f \in Offenders :
         /\ Cardinality({i \in HeaderPositions : ReportLines[i] = FileHeader(f)}) = 1
         /\ ReportLines[HeaderOf(f) + 1] = Rule(45)
         /\ Len(BlockLines(f)) = Len(IssuesOf(issues, f))
         /\ \A k \in 1..Len(IssuesOf(issues, f)) :
              LET e == IssuesOf(issues, f)[k]
              IN  Count(BlockLines(f), EntryLine(<<e[2], e[3]>>))
                    = Count(IssuesOf(issues, f), e)
         /\ \A a, b \in 1..Len(BlockLines(f)) :
              a < b =>
                \E x, y \in 1..Len(IssuesOf(issues, f)) :
                  LET ex == <<IssuesOf(issues, f)[x][2], IssuesOf(issues, f)[x][3]>>
                      ey == <<IssuesOf(issues, f)[y][2], IssuesOf(issues, f)[y][3]>>
                  IN  /\ BlockLines(f)[a] = EntryLine(ex)
                      /\ BlockLines(f)[b] = EntryLine(ey)
                      /\ ex = ey \/ EntryLess(ex, ey)
    /\ \A f, g \in Offenders : HeaderOf(f) < HeaderOf(g) => StrLess(f, g)

\* a report whose blocks are not in the order the files were analysed and
\* whose lines within a block are not in the order the violations were found
C9_Witness ==
  /\ pc = "exited"
  /\ \E i, j \in 1..Len(issues) :
       i < j /\ issues[i][1] # issues[j][1] /\ StrLess(issues[j][1], issues[i][1])
  /\ \E i, j \in 1..Len(issues) :
       /\ i < j
       /\ issues[i][1] = issues[j][1]
       /\ EntryLess(<<issues[j][2], issues[j][3]>>, <<issues[i][2], issues[i][3]>>)

(***************************************************************************)
(* C10  A definition whose name follows a metadata mark is recorded under  *)
(* the name, never under the mark: "(defn ^:private helper [] 1)" defines  *)
(* helper on its line.                                                     *)
(***************************************************************************)
C10_MetadataStripped ==
  \A f \in AnalysedRead :
    \A n \in 1..Len(LinesOf(f)) :
      LinesOf(f)[n] = LineDefMetadata =>
        /\ PrivateMark \notin DOMAIN RecordOf(f).definitions
        /\ Helper \in DOMAIN RecordOf(f).definitions
        /\ RecordOf(f).definitions[Helper] >= n

====
